---- MODULE Spec2Model ----
(***************************************************************************)
(* FlickrSync (flickrsync.py): download of Flickr albums to local folders  *)
(* with additive EXIF/XMP metadata.                                        *)
(*                                                                         *)
(* Python strings that the code inspects character by character (titles,   *)
(* paths, time stamps, the selection string, sequence tags) are sequences  *)
(* of one-character strings.  Strings the code only copies (license names, *)
(* metadata keys) are TLA+ strings.  A Python call that either returns or  *)
(* raises is a record [raised, value]: raised = "" on a normal return.     *)
(***************************************************************************)
EXTENDS Integers, Sequences, FiniteSets, TLC

VARIABLES
    call,            \* a pure function applied to drawn arguments
    ret,             \* what it returned or raised
    pc,              \* position of the main program
    selection,       \* the text typed at the prompt
    setsToDownload,  \* the selection parsed by rangeSplit
    k,               \* position of the main loop in setsToDownload
    i,               \* photos of the current album passed to downloadPhoto
    feed,            \* size of the remote feed of photos not in any album
    page,            \* page of the feed downloadNotInSet asks for
    photos,          \* length of the page it received
    pos,             \* photos of that page passed to downloadPhoto
    passed,          \* photos of the feed passed to downloadPhoto
    dirs,            \* directories that exist below the working directory
    last,            \* the latest call of downloadPhoto
    anySaved,        \* some asset has been stored
    error            \* the exception that ended the program

fvars == <<call, ret>>
rvars == <<pc, selection, setsToDownload, k, i, feed, page, photos, pos, passed,
           dirs, last, anySaved, error>>
vars == <<call, ret, pc, selection, setsToDownload, k, i, feed, page, photos, pos,
          passed, dirs, last, anySaved, error>>

(***************************************************************************)
(* Bounds of the model.                                                    *)
(***************************************************************************)
MaxCode == 12
MaxNum == 3
MaxTokens == 2
MaxSmallTotal == 12
MaxFeed == 2

(***************************************************************************)
(* Python built-ins used by the program.                                   *)
(***************************************************************************)
Ret(v) == [raised |-> "", value |-> v]
Raise(e, v) == [raised |-> e, value |-> v]

Digits == <<"0", "1", "2", "3", "4", "5", "6", "7", "8", "9">>
IsDigit(c) == \E d \in 1..10 : Digits[d] = c
DigitVal(c) == (CHOOSE d \in 1..10 : Digits[d] = c) - 1

\* c in s, for a one-character c
Contains(s, c) == \E n \in 1..Len(s) : s[n] = c

\* s.replace(c, r): every occurrence of the character c becomes the string r
RECURSIVE replace(_, _, _)
replace(s, c, r) ==
    IF s = <<>> THEN <<>>
    ELSE (IF Head(s) = c THEN r ELSE <<Head(s)>>) \o replace(Tail(s), c, r)

\* s.split(c): the pieces between the occurrences of c, empty pieces kept
RECURSIVE splitAcc(_, _, _, _)
splitAcc(s, c, piece, done) ==
    IF s = <<>> THEN Append(done, piece)
    ELSE IF Head(s) = c THEN splitAcc(Tail(s), c, <<>>, Append(done, piece))
    ELSE splitAcc(Tail(s), c, Append(piece, Head(s)), done)
split(s, c) == splitAcc(s, c, <<>>, <<>>)

\* s.endswith(suffix)
endswith(s, suffix) ==
    /\ Len(s) >= Len(suffix)
    /\ SubSeq(s, Len(s) - Len(suffix) + 1, Len(s)) = suffix

\* s.strip() for blanks
RECURSIVE lstrip(_)
lstrip(s) == IF s # <<>> /\ Head(s) = " " THEN lstrip(Tail(s)) ELSE s
RECURSIVE rstrip(_)
rstrip(s) == IF s # <<>> /\ s[Len(s)] = " " THEN rstrip(SubSeq(s, 1, Len(s) - 1)) ELSE s
strip(s) == rstrip(lstrip(s))

RECURSIVE digitsValue(_, _)
digitsValue(s, acc) ==
    IF s = <<>> THEN acc ELSE digitsValue(Tail(s), 10 * acc + DigitVal(Head(s)))

\* int(s): blanks around the literal are ignored, one sign is allowed, the
\* rest must be a non-empty run of decimal digits, otherwise ValueError
int(s) ==
    LET t == strip(s)
        signed == t # <<>> /\ Head(t) \in {"-", "+"}
        body == IF signed THEN Tail(t) ELSE t
    IN  IF body = <<>> \/ \E n \in 1..Len(body) : ~IsDigit(body[n])
        THEN Raise("ValueError", 0)
        ELSE IF signed /\ Head(t) = "-"
             THEN Ret(0 - digitsValue(body, 0))
             ELSE Ret(digitsValue(body, 0))

\* str(n) for a natural number n
RECURSIVE str(_)
str(n) == IF n < 10 THEN <<Digits[n + 1]>> ELSE str(n \div 10) \o <<Digits[(n % 10) + 1]>>

\* f'{n:0w}': str(n) padded on the left with zeros to at least w characters
RECURSIVE zeros(_)
zeros(n) == IF n <= 0 THEN <<>> ELSE <<"0">> \o zeros(n - 1)
format0(n, w) == zeros(w - Len(str(n))) \o str(n)

\* list(range(a, b)) appended to a list
RECURSIVE range(_, _)
range(a, b) == IF a >= b THEN <<>> ELSE <<a>> \o range(a + 1, b)

\* Python's order on strings: s < t
RECURSIVE StrLess(_, _)
StrLess(s, t) ==
    IF t = <<>> THEN FALSE
    ELSE IF s = <<>> THEN TRUE
    ELSE IF Head(s) = Head(t) THEN StrLess(Tail(s), Tail(t))
    ELSE \E a, b \in 1..10 : Digits[a] = Head(s) /\ Digits[b] = Head(t) /\ a < b

(***************************************************************************)
(* getLicense.  The list literal has no comma after its first string, so   *)
(* Python joins the first two literals into one element: ten elements.     *)
(***************************************************************************)
licenses == <<
    "All Rights ReservedCC BY-NC-SA (Attribution-NonCommercial-ShareAlike) License",
    "CC BY-NC (Attribution-NonCommercial) License",
    "CC BY-NC-ND (Attribution-NonCommercial-NoDerivs) License",
    "CC BY (Attribution) License",
    "CC BY-SA (Attribution-ShareAlike) License",
    "CC BY-ND (Attribution-NoDerivs) License",
    "No known copyright restrictions",
    "United States Government Work",
    "Public Domain Dedication (CC0)",
    "Public Domain Mark" >>

\* lst[n] of Python: negative n counts from the end, otherwise IndexError
index(lst, n) ==
    IF 0 <= n /\ n < Len(lst) THEN Ret(lst[n + 1])
    ELSE IF 0 - Len(lst) <= n /\ n < 0 THEN Ret(lst[Len(lst) + n + 1])
    ELSE Raise("IndexError", "")

getLicense(photoInfo) ==
    LET n == int(photoInfo.license)
    IN  IF n.raised # "" THEN Raise(n.raised, "") ELSE index(licenses, n.value)

(***************************************************************************)
(* generateFilename.  The text of an empty or missing <title> is None and  *)
(* None.replace raises, which the bare except turns into 'Unknown': the    *)
(* absent title is the empty sequence.                                     *)
(***************************************************************************)
None == <<>>
Unknown == <<"U", "n", "k", "n", "o", "w", "n">>
mp4 == <<"m", "p", "4">>
NoNum == <<"None">>

\* generateFilename keeping the stated format for videos
generateFilename_keepFormat(photoInfo, photoNum) ==
    LET taken == replace(replace(replace(photoInfo.taken, "-", <<>>), ":", <<>>), " ", <<"-">>)
        title == IF photoInfo.title = None THEN Unknown
                 ELSE replace(photoInfo.title, " ", <<"_">>)
        extension == photoInfo.originalformat
    IN  IF photoNum = NoNum
        THEN taken \o <<"_">> \o title \o <<".">> \o extension
        ELSE photoNum \o <<"_">> \o taken \o <<"_">> \o title \o <<".">> \o extension

generateFilename(photoInfo, photoNum) ==
    LET taken == replace(replace(replace(photoInfo.taken, "-", <<>>), ":", <<>>), " ", <<"-">>)
        title == IF photoInfo.title = None THEN Unknown
                 ELSE replace(photoInfo.title, " ", <<"_">>)
        extension == IF photoInfo.media = "video" THEN mp4 ELSE photoInfo.originalformat
    IN  IF photoNum = NoNum
        THEN taken \o <<"_">> \o title \o <<".">> \o extension
        ELSE photoNum \o <<"_">> \o taken \o <<"_">> \o title \o <<".">> \o extension

(***************************************************************************)
(* The sequence tag downloadPhotoSet gives to the j-th photo of an album   *)
(* whose listed size is total.                                             *)
(***************************************************************************)
\* the tag without padding for albums of 10 to 99 photos
photoNumOf_unpadded(j, total) ==
    IF total < 100 THEN str(j)
    ELSE IF total < 1000 THEN format0(j, 3)
    ELSE format0(j, 4)

photoNumOf(j, total) ==
    IF total < 10 THEN str(j)
    ELSE IF total < 100 THEN format0(j, 2)
    ELSE IF total < 1000 THEN format0(j, 3)
    ELSE format0(j, 4)

(***************************************************************************)
(* rangeSplit.                                                             *)
(***************************************************************************)
RECURSIVE rangeParts(_, _)
rangeParts(parts, result) ==
    IF parts = <<>> THEN Ret(result)
    ELSE LET part == Head(parts)
         IN  IF Contains(part, "-")
             THEN LET ab == split(part, "-")
                  IN  IF Len(ab) # 2 THEN Raise("ValueError", <<>>)
                      ELSE LET a == int(ab[1])
                               b == int(ab[2])
                           IN  IF a.raised # "" \/ b.raised # ""
                               THEN Raise("ValueError", <<>>)
                               ELSE rangeParts(Tail(parts),
                                               result \o range(a.value, b.value + 1))
             ELSE LET a == int(part)
                  IN  IF a.raised # "" THEN Raise("ValueError", <<>>)
                      ELSE rangeParts(Tail(parts), Append(result, a.value))

\* rangeSplit that always splits at blanks
rangeSplit_blankOnly(rangeStr) == rangeParts(split(rangeStr, " "), <<>>)

rangeSplit(rangeStr) ==
    LET splitChar == IF Contains(rangeStr, ",") THEN "," ELSE " "
    IN  rangeParts(split(rangeStr, splitChar), <<>>)

(***************************************************************************)
(* The metadata of a file is a function from the keys it holds to their    *)
(* values.  A key Exif.Image.Artist is the tuple of its dotted parts; a    *)
(* value (a string, a list of strings, a date) is a sequence of pieces.    *)
(***************************************************************************)
Key(family, group, name) == <<family, group, name>>

\* metadata.exif_keys of pyexiv2: the keys of the Exif family only
exif_keys(metadata) == { key \in DOMAIN metadata : key[1] = "Exif" }

\* the keys setExif assigns and the metadata it leaves in the file
setExifTags(metadata, exif) == { exifTag \in DOMAIN exif : exifTag \notin exif_keys(metadata) }

setExif(metadata, exif) ==
    LET assigned == setExifTags(metadata, exif)
    IN  [ metadata |-> [ key \in DOMAIN metadata \cup assigned |->
                           IF key \in assigned THEN exif[key] ELSE metadata[key] ],
          writeRequired |-> assigned # {} ]

(***************************************************************************)
(* datetime.datetime.strptime(taken, '%Y-%m-%d %H:%M:%S') for the 19       *)
(* character text the service sends: ValueError unless it is a calendar    *)
(* date and a time of day.  The parsed value is shown by its text.         *)
(***************************************************************************)
DaysIn(y, m) ==
    IF m \in {4, 6, 9, 11} THEN 30
    ELSE IF m # 2 THEN 31
    ELSE IF (y % 4 = 0 /\ y % 100 # 0) \/ y % 400 = 0 THEN 29
    ELSE 28

strptime(taken) ==
    LET digitsAt == {1, 2, 3, 4, 6, 7, 9, 10, 12, 13, 15, 16, 18, 19}
        num(a, b) == digitsValue(SubSeq(taken, a, b), 0)
    IN  IF \/ Len(taken) # 19
           \/ \E n \in digitsAt : ~IsDigit(taken[n])
           \/ <<taken[5], taken[8], taken[11], taken[14], taken[17]>>
                 # <<"-", "-", " ", ":", ":">>
        THEN Raise("ValueError", <<>>)
        ELSE IF /\ num(1, 4) >= 1
                /\ num(6, 7) \in 1..12
                /\ num(9, 10) \in 1..DaysIn(num(1, 4), num(6, 7))
                /\ num(12, 13) <= 23 /\ num(15, 16) <= 59 /\ num(18, 19) <= 61
             THEN Ret(taken)
             ELSE Raise("ValueError", <<>>)

(***************************************************************************)
(* getOwner, getCopyright and the tags downloadPhoto derives for an image. *)
(***************************************************************************)
getOwner(photoInfo) == photoInfo.realname

getCopyright(photoInfo) ==
    LET year == SubSeq(photoInfo.taken, 1, 4)
        owner == getOwner(photoInfo)
        license == getLicense(photoInfo)
    IN  IF license.raised # "" THEN Raise(license.raised, <<>>)
        ELSE Ret(<<"Copyright, ">> \o owner \o <<", ">> \o year \o <<". ", license.value>>)

\* the GPS tags: the degrees, minutes and seconds computed by gpsDecimalToDMS
\* are kept as the decimal text they are computed from
gpsTags(photoInfo, date) ==
    IF photoInfo.location = None THEN << >>
    ELSE (Key("Exif", "GPSInfo", "GPSVersionID") :> <<"2 0 0 0">>)
      @@ (Key("Exif", "GPSInfo", "GPSLatitude") :> <<"DMS">> \o photoInfo.location[1])
      @@ (Key("Exif", "GPSInfo", "GPSLatitudeRef") :> <<"Ref">> \o photoInfo.location[1])
      @@ (Key("Exif", "GPSInfo", "GPSLongitude") :> <<"DMS">> \o photoInfo.location[2])
      @@ (Key("Exif", "GPSInfo", "GPSLongitudeRef") :> <<"Ref">> \o photoInfo.location[2])
      @@ (Key("Exif", "GPSInfo", "GPSDateStamp") :> <<"%Y:%m:%d">> \o date)

\* lines 279-325: photoExif, or the exception that building it raises
photoExifOf(photoInfo) ==
    LET copyright == getCopyright(photoInfo)
        license == getLicense(photoInfo)
        title == IF photoInfo.title = None THEN Unknown ELSE photoInfo.title
        description == IF photoInfo.description = None THEN title
                       ELSE photoInfo.description
        takenFormatted == strptime(photoInfo.taken)
    IN  IF copyright.raised # "" THEN Raise(copyright.raised, << >>)
        ELSE IF takenFormatted.raised # "" THEN Raise(takenFormatted.raised, << >>)
        ELSE Ret(
             (Key("Exif", "Image", "Copyright") :> copyright.value)
          @@ (Key("Exif", "Image", "Artist") :> getOwner(photoInfo))
          @@ (Key("Xmp", "dc", "rights") :> copyright.value)
          @@ (Key("Xmp", "dc", "creator") :> getOwner(photoInfo))
          @@ (Key("Xmp", "xmpRights", "Owner") :> getOwner(photoInfo))
          @@ (Key("Xmp", "xmpRights", "Marked") :> <<"True">>)
          @@ (Key("Xmp", "xmpRights", "UsageTerms") :> <<license.value>>)
          @@ (Key("Xmp", "dc", "title") :> title)
          @@ (Key("Exif", "Image", "ImageDescription") :> title)
          @@ (Key("Xmp", "dc", "description") :> description)
          @@ (Key("Exif", "Photo", "UserComment") :> description)
          @@ (IF Len(photoInfo.tags) > 0
              THEN Key("Xmp", "dc", "subject") :> photoInfo.tags ELSE << >>)
          @@ (Key("Xmp", "dc", "date") :> takenFormatted.value)
          @@ (Key("Xmp", "xmp", "CreateDate") :> takenFormatted.value)
          @@ gpsTags(photoInfo, takenFormatted.value))

(***************************************************************************)
(* downloadPhoto(path, photoId, photoNum).  fs is the set of directories   *)
(* that exist; photoInfo and sizes are what the service answers for        *)
(* photoId, fetch says whether the transfer of the asset succeeds and      *)
(* which metadata the asset carries.  urlretrieve stores the asset only in *)
(* a directory that exists.  The result is the exception that leaves the     *)
(* function (raised), the directories afterwards and a record of the call. *)
(***************************************************************************)
os_sep == "/"
NoFile == << >>

\* the except clause letting the failure out of downloadPhoto
downloadFailed_propagates(attempt, fs) ==
    [ raised |-> "OSError", dirs |-> fs,
      call |-> attempt @@ [ result |-> "skipped", stored |-> FALSE, printed |-> FALSE,
                            wrote |-> FALSE, asset |-> NoFile, metadata |-> NoFile ] ]

\* except: return
downloadFailed(attempt, fs) ==
    [ raised |-> "", dirs |-> fs,
      call |-> attempt @@ [ result |-> "skipped", stored |-> FALSE, printed |-> FALSE,
                            wrote |-> FALSE, asset |-> NoFile, metadata |-> NoFile ] ]

downloadPhoto(fs, path, photoNum, photoInfo, sizes, fetch) ==
    LET setPath == replace(path, "/", <<"-">>)
        made == fs \cup {setPath}
        filename == path \o <<os_sep>> \o generateFilename(photoInfo, photoNum)
        video == endswith(filename, <<".">> \o mp4)
        label == IF video THEN "Video Original" ELSE "Original"
        tried == label \in sizes
        stored == tried /\ fetch.ok /\ path \in made
        asset == fetch.asset
        attempt == [ path |-> path, photoNum |-> photoNum, photoInfo |-> photoInfo,
                     sizes |-> sizes, fetched |-> fetch.ok, setPath |-> setPath,
                     filename |-> filename ]
        photoExif == photoExifOf(photoInfo)
    IN  IF ~stored THEN downloadFailed(attempt, made)
        ELSE IF video
        THEN [ raised |-> "", dirs |-> made,
               call |-> attempt @@ [ result |-> "saved", stored |-> TRUE, printed |-> TRUE,
                                     wrote |-> FALSE, asset |-> asset, metadata |-> asset ] ]
        ELSE IF photoExif.raised # ""
        THEN [ raised |-> photoExif.raised, dirs |-> made,
               call |-> attempt @@ [ result |-> "raised", stored |-> TRUE, printed |-> TRUE,
                                     wrote |-> FALSE, asset |-> asset, metadata |-> asset ] ]
        ELSE LET merged == setExif(asset, photoExif.value)
             IN  [ raised |-> "", dirs |-> made,
                   call |-> attempt @@ [ result |-> "saved", stored |-> TRUE,
                                         printed |-> TRUE,
                                         wrote |-> merged.writeRequired, asset |-> asset,
                                         metadata |-> merged.metadata ] ]

(***************************************************************************)
(* Inputs of the pure functions.                                           *)
(***************************************************************************)
Pending == [raised |-> "pending", value |-> <<>>]

\* the text of an integer attribute as the service sends it
IntText(n) == IF n < 0 THEN <<"-">> \o str(0 - n) ELSE str(n)

LicenseCalls ==
    { [fn |-> "getLicense", photoInfo |-> [license |-> IntText(c)], code |-> c] :
        c \in (0 - MaxCode)..MaxCode }

MyFlickrPicture ==
    <<"M", "y", " ", "F", "l", "i", "c", "k", "r", " ", "P", "i", "c", "t", "u", "r", "e">>
Taken2018 ==
    <<"2", "0", "1", "8", "-", "0", "5", "-", "2", "1", " ", "2", "0", ":", "3", "6", ":", "2", "5">>
Taken1999 ==
    <<"1", "9", "9", "9", "-", "1", "2", "-", "3", "1", " ", "2", "3", ":", "5", "9", ":", "5", "9">>
TakenZero ==
    <<"0", "0", "0", "0", "-", "0", "0", "-", "0", "0", " ", "0", "0", ":", "0", "0", ":", "0", "0">>
jpg == <<"j", "p", "g">>
png == <<"p", "n", "g">>
Tag0007 == <<"0", "0", "0", "7">>

Titles == { None, MyFlickrPicture, <<"a", " ", "b">>, <<" ">>, <<"x", "_", "y">> }
Takens == { Taken2018, Taken1999, TakenZero }
Formats == { jpg, png, mp4 }
Medias == { "photo", "video" }
PhotoNums == { NoNum, Tag0007, <<"7">> }

FilenameCalls ==
    { [fn |-> "generateFilename",
       photoInfo |-> [taken |-> tk, title |-> ti, media |-> me, originalformat |-> fo],
       photoNum |-> pn] :
        tk \in Takens, ti \in Titles, me \in Medias, fo \in Formats, pn \in PhotoNums }

\* a selection typed by the user: tokens n (<<n>>) and a-b (<<a, b>>) joined
\* by one delimiter
Nums == (0..MaxNum) \cup {10}
Tokens == { <<n>> : n \in Nums } \cup { <<a, b>> : a \in Nums, b \in Nums }
TokenText(tok) ==
    IF Len(tok) = 1 THEN str(tok[1]) ELSE str(tok[1]) \o <<"-">> \o str(tok[2])
RECURSIVE Join(_, _)
Join(toks, delim) ==
    IF Len(toks) = 1 THEN TokenText(toks[1])
    ELSE TokenText(Head(toks)) \o <<delim>> \o Join(Tail(toks), delim)

TokenLists ==
    UNION { [1..n -> Tokens] : n \in 1..MaxTokens }
      \cup { << <<1>>, <<2>>, <<4, 6>>, <<8>> >>, << <<1>>, <<3>>, <<5>> >> }

\* selections that are not a list of tokens
OddSelections ==
    { <<"x">>, <<"1", " ", "x">>, <<"1", "-", "2", "-", "3">>, <<"1", " ", " ", "2">>,
      <<"-", "3">>, <<"1", ",", " ", "2">>, <<>> }

RangeCalls ==
    { [fn |-> "rangeSplit", tokens |-> toks, delim |-> de, rangeStr |-> Join(toks, de)] :
        toks \in TokenLists, de \in {" ", ","} }
      \cup { [fn |-> "rangeSplit", tokens |-> <<>>, delim |-> " ", rangeStr |-> odd] :
               odd \in OddSelections }

\* album sizes and positions around the changes of width
Positions == (1..MaxSmallTotal) \cup {99, 100, 101, 999, 1000, 1001, 9999, 10000, 10001}
PhotoNumCalls ==
    { [fn |-> "photoNum", total |-> t, j1 |-> a, j2 |-> b] :
        t \in Positions, a \in Positions, b \in Positions } 

(***************************************************************************)
(* The remote library and what the service and the file system answer.     *)
(***************************************************************************)
NoId == "None"
NoTotal == 0 - 1
NotInAlbum == <<"P", "h", "o", "t", "o", "s", " ", "n", "o", "t", " ", "i", "n", " ", "a", "n", " ", "a", "l", "b", "u", "m">>

\* the albums of the account as photosets.getList reports them
RemoteSets == <<
    [ title |-> <<"a">>, id |-> "s1", photos |-> 1, videos |-> 1 ],
    [ title |-> <<"a", "/", "b">>, id |-> "s2", photos |-> 2, videos |-> 0 ] >>

flickrGetPhotoSets(incNotInSet) ==
    (IF incNotInSet THEN << [title |-> NotInAlbum, id |-> NoId, total |-> NoTotal] >>
     ELSE << >>)
    \o [ n \in 1..Len(RemoteSets) |->
           [ title |-> RemoteSets[n].title, id |-> RemoteSets[n].id,
             total |-> RemoteSets[n].photos + RemoteSets[n].videos ] ]

photosets == flickrGetPhotoSets(TRUE)

Owner == <<"Graham White">>
Position == << <<"51.5">>, <<"-0.12">> >>

\* answers of photos.getInfo
InfoSamples == {
    [ taken |-> Taken2018, title |-> <<"x", " ", "y">>, media |-> "photo",
      originalformat |-> jpg, license |-> <<"4">>, realname |-> Owner,
      description |-> <<"sea view">>, tags |-> <<"sea", "sun">>, location |-> Position ],
    [ taken |-> Taken1999, title |-> None, media |-> "photo",
      originalformat |-> png, license |-> <<"0">>, realname |-> Owner,
      description |-> None, tags |-> << >>, location |-> None ],
    [ taken |-> Taken2018, title |-> <<"v">>, media |-> "video",
      originalformat |-> jpg, license |-> <<"0">>, realname |-> Owner,
      description |-> None, tags |-> << >>, location |-> None ],
    [ taken |-> Taken2018, title |-> <<"p">>, media |-> "photo",
      originalformat |-> jpg, license |-> <<"1", "0">>, realname |-> Owner,
      description |-> None, tags |-> << >>, location |-> None ],
    [ taken |-> TakenZero, title |-> <<"z">>, media |-> "photo",
      originalformat |-> jpg, license |-> <<"2">>, realname |-> Owner,
      description |-> None, tags |-> << >>, location |-> None ] }

\* answers of photos.getSizes: the labels listed
SizesSamples == { {"Original", "Video Original"}, {"Square"} }

\* metadata an asset carries when it is fetched
AssetSamples == {
    << >>,
    Key("Exif", "Image", "Artist") :> <<"in file">>,
    Key("Xmp", "dc", "title") :> <<"in file">>,
    (Key("Exif", "Image", "Copyright") :> <<"in file">>)
       @@ (Key("Xmp", "dc", "rights") :> <<"in file">>)
       @@ (Key("Exif", "Image", "Make") :> <<"in file">>) }

\* the transfer of an asset: it fails, or delivers one of these assets
FetchSamples ==
    { [ok |-> FALSE, asset |-> NoFile] } \cup { [ok |-> TRUE, asset |-> a] : a \in AssetSamples }

\* directories that may exist when the program starts
InitialDirs == { {}, { <<"a">> }, { <<"a">>, <<"a", "-", "b">> },
                 { <<"a">>, <<"a", "/", "b">> } }

\* texts typed at the prompt
Selections == { <<"0">>,
    <<"1">>,
    <<"2">>,
    <<"1", " ", "2">>,
    <<"2", ",", "1">>,
    <<"1", "-", "2">>,
    <<"0", "-", "2">>,
    <<"2", "-", "1">>,
    <<"1", " ", "1">>,
    <<"3">>,
    <<"1", " ", "5">>,
    <<"5", " ", "1">>,
    <<"1", " ", "x">>,
    <<"x", " ", "1">>,
    <<"1", "-", "2", "-", "3">> }

\* sizes of the feed of photos not in any album, around the page sizes
PerPage == 500
FullPage == 100
FeedSizes == { 0, 1, 100, 501 }

NoCall == [ path |-> << >>, photoNum |-> NoNum, photoInfo |-> << >>, sizes |-> {},
            fetched |-> FALSE, setPath |-> << >>, filename |-> << >>,
            result |-> "none", stored |-> FALSE, printed |-> FALSE,
            wrote |-> FALSE, asset |-> NoFile, metadata |-> NoFile ]

(***************************************************************************)
(* The main program.                                                       *)
(***************************************************************************)
InitMain ==
    /\ call = [fn |-> "none"] /\ ret = Pending
    /\ pc = "input" /\ setsToDownload = << >>
    /\ k = 0 /\ i = 0 /\ page = 0 /\ photos = 0 /\ pos = 0 /\ passed = 0
    /\ last = NoCall /\ anySaved = FALSE /\ error = ""

InitRun ==
    /\ InitMain
    /\ selection \in Selections
    /\ feed \in 0..MaxFeed
    /\ dirs \in InitialDirs

InitNotInSet ==
    /\ InitMain
    /\ selection = <<"0">>
    /\ feed \in FeedSizes
    /\ dirs = {}

\* lines 430-431: the prompt and rangeSplit
Input ==
    /\ pc = "input"
    /\ LET r == rangeSplit(selection)
       IN  IF r.raised # ""
           THEN pc' = "aborted" /\ error' = r.raised /\ UNCHANGED <<setsToDownload, k>>
           ELSE pc' = "sets" /\ setsToDownload' = r.value /\ k' = 1 /\ UNCHANGED error
    /\ UNCHANGED <<call, ret, selection, i, feed, page, photos, pos, passed, dirs, last,
                   anySaved>>

\* lines 434-440: the next selected album is looked up and its download begins
NextSet ==
    /\ pc = "sets" /\ k <= Len(setsToDownload)
    /\ LET set == index(photosets, setsToDownload[k])
       IN  IF set.raised # ""
           THEN pc' = "aborted" /\ error' = set.raised
                  /\ UNCHANGED <<i, page, photos, pos, passed>>
           ELSE IF set.value.id # NoId
           THEN pc' = "set" /\ i' = 0 /\ UNCHANGED <<error, page, photos, pos, passed>>
           ELSE pc' = "page" /\ page' = 1 /\ photos' = 0 /\ pos' = 0 /\ passed' = 0
                  /\ UNCHANGED <<error, i>>
    /\ UNCHANGED <<call, ret, selection, setsToDownload, k, feed, dirs, last, anySaved>>

\* the selection is exhausted
Finish ==
    /\ pc = "sets" /\ k > Len(setsToDownload)
    /\ pc' = "done"
    /\ UNCHANGED <<call, ret, selection, setsToDownload, k, i, feed, page, photos, pos,
                   passed, dirs, last, anySaved, error>>

CurrentSet == photosets[setsToDownload[k] + 1]

\* what one call of downloadPhoto does to the program
Called(r) ==
    /\ dirs' = r.dirs
    /\ last' = r.call
    /\ anySaved' = (anySaved \/ r.call.stored)

\* lines 339-353: one photo of walk_set
DownloadPhotoSetStep ==
    /\ pc = "set" /\ i < CurrentSet.total
    /\ \E photoInfo \in InfoSamples, sizes \in SizesSamples, fetch \in FetchSamples :
       \E photoNum \in { photoNumOf(i + 1, CurrentSet.total) } :
       \E r \in { downloadPhoto(dirs, CurrentSet.title, photoNum, photoInfo, sizes, fetch) } :
             /\ Called(r)
             /\ IF r.raised # ""
                THEN pc' = "aborted" /\ error' = r.raised /\ UNCHANGED i
                ELSE i' = i + 1 /\ UNCHANGED <<pc, error>>
    /\ UNCHANGED <<call, ret, selection, setsToDownload, k, feed, page, photos, pos, passed>>

\* walk_set is exhausted
EndSet ==
    /\ pc = "set" /\ i >= CurrentSet.total
    /\ pc' = "sets" /\ k' = k + 1
    /\ UNCHANGED <<call, ret, selection, setsToDownload, i, feed, page, photos, pos,
                   passed, dirs, last, anySaved, error>>

\* photos.getNotInSet(page=page, per_page=500): the photos of that page
getNotInSet(n, per_page) ==
    LET before == (n - 1) * per_page
    IN  IF feed <= before THEN 0
        ELSE IF feed - before < per_page THEN feed - before ELSE per_page

\* line 367
GetPage ==
    /\ pc = "page"
    /\ photos' = getNotInSet(page, PerPage)
    /\ pos' = 0
    /\ pc' = "notinset"
    /\ UNCHANGED <<call, ret, selection, setsToDownload, k, i, feed, page, passed, dirs,
                   last, anySaved, error>>

\* lines 369-371: one photo of the page
DownloadNotInSetStep ==
    /\ pc = "notinset" /\ pos < photos
    /\ \E photoInfo \in InfoSamples, sizes \in SizesSamples, fetch \in FetchSamples :
       \E r \in { downloadPhoto(dirs, CurrentSet.title, NoNum, photoInfo, sizes, fetch) } :
             /\ Called(r)
             /\ passed' = passed + 1
             /\ IF r.raised # ""
                THEN pc' = "aborted" /\ error' = r.raised /\ UNCHANGED pos
                ELSE pos' = pos + 1 /\ UNCHANGED <<pc, error>>
    /\ UNCHANGED <<call, ret, selection, setsToDownload, k, i, feed, page, photos>>

\* the test that another page is to be asked for
nextPageWanted(len) == len = FullPage

\* lines 373-376
EndPage ==
    /\ pc = "notinset" /\ pos >= photos
    /\ IF nextPageWanted(photos)
       THEN page' = page + 1 /\ pc' = "page" /\ UNCHANGED k
       ELSE pc' = "sets" /\ k' = k + 1 /\ UNCHANGED page
    /\ UNCHANGED <<call, ret, selection, setsToDownload, i, feed, photos, pos, passed,
                   dirs, last, anySaved, error>>

NextRun ==
    \/ Input \/ NextSet \/ Finish
    \/ DownloadPhotoSetStep \/ EndSet
    \/ GetPage \/ DownloadNotInSetStep \/ EndPage

NextNotInSet ==
    \/ Input \/ NextSet \/ Finish
    \/ GetPage \/ DownloadNotInSetStep \/ EndPage

SpecRun == InitRun /\ [][NextRun]_vars
SpecNotInSet == InitNotInSet /\ [][NextNotInSet]_vars

(***************************************************************************)
(* The pure functions applied to drawn arguments.                          *)
(***************************************************************************)
InitFunctions ==
    /\ call \in LicenseCalls \cup FilenameCalls \cup RangeCalls
                  \cup { c \in PhotoNumCalls : c.j1 < c.j2 /\ c.j2 <= c.total }
    /\ ret = Pending
    /\ pc = "idle" /\ selection = << >> /\ setsToDownload = << >>
    /\ k = 0 /\ i = 0 /\ feed = 0 /\ page = 0 /\ photos = 0 /\ pos = 0 /\ passed = 0
    /\ dirs = {} /\ last = NoCall /\ anySaved = FALSE /\ error = ""

GetLicense ==
    /\ call.fn = "getLicense" /\ ret = Pending
    /\ ret' = getLicense(call.photoInfo)
    /\ UNCHANGED <<call, rvars>>

GenerateFilename ==
    /\ call.fn = "generateFilename" /\ ret = Pending
    /\ ret' = Ret(generateFilename(call.photoInfo, call.photoNum))
    /\ UNCHANGED <<call, rvars>>

RangeSplit ==
    /\ call.fn = "rangeSplit" /\ ret = Pending
    /\ ret' = rangeSplit(call.rangeStr)
    /\ UNCHANGED <<call, rvars>>

\* the tags of two photos of one album, as the loop of downloadPhotoSet
\* formats them
PhotoNum ==
    /\ call.fn = "photoNum" /\ ret = Pending
    /\ ret' = Ret(<<photoNumOf(call.j1, call.total), photoNumOf(call.j2, call.total)>>)
    /\ UNCHANGED <<call, rvars>>

NextFunctions == GetLicense \/ GenerateFilename \/ RangeSplit \/ PhotoNum

SpecFunctions == InitFunctions /\ [][NextFunctions]_vars

(***************************************************************************)
(* Properties of the pure functions.                                       *)
(***************************************************************************)
Returned(fn) == call.fn = fn /\ ret # Pending

\* the license table as documented: eleven names, codes 0 to 10
LicenseNames == <<
    "All Rights Reserved",
    "CC BY-NC-SA (Attribution-NonCommercial-ShareAlike) License",
    "CC BY-NC (Attribution-NonCommercial) License",
    "CC BY-NC-ND (Attribution-NonCommercial-NoDerivs) License",
    "CC BY (Attribution) License",
    "CC BY-SA (Attribution-ShareAlike) License",
    "CC BY-ND (Attribution-NoDerivs) License",
    "No known copyright restrictions",
    "United States Government Work",
    "Public Domain Dedication (CC0)",
    "Public Domain Mark" >>

\* C7: getLicense returns the name at index code of the eleven-entry table
\* for every code in 0..10 (code 0: All Rights Reserved, code 10: Public
\* Domain Mark) and fails for every other integer code.
C7_LicenseDefinedOn0To10 ==
    Returned("getLicense") =>
        IF call.code \in 0..10
        THEN ret.raised = "" /\ ret.value = LicenseNames[call.code + 1]
        ELSE ret.raised # ""

\* the capture time 'YYYY-MM-DD HH:MM:SS' written as YYYYMMDD-HHMMSS
Timestamp(taken) ==
    SubSeq(taken, 1, 4) \o SubSeq(taken, 6, 7) \o SubSeq(taken, 9, 10) \o <<"-">>
        \o SubSeq(taken, 12, 13) \o SubSeq(taken, 15, 16) \o SubSeq(taken, 18, 19)
Underscored(title) == [n \in 1..Len(title) |-> IF title[n] = " " THEN "_" ELSE title[n]]

Contribution(tok) ==
    IF Len(tok) = 1 THEN <<tok[1]>>
    ELSE IF tok[2] < tok[1] THEN <<>>
    ELSE [n \in 1..(tok[2] - tok[1] + 1) |-> tok[1] + n - 1]
RECURSIVE Selected(_)
Selected(toks) ==
    IF toks = <<>> THEN <<>> ELSE Contribution(Head(toks)) \o Selected(Tail(toks))

\* C9: rangeSplit returns, in input order and with duplicates, n for a token
\* n and a..b for a token a-b (nothing when b < a), the tokens being split at
\* commas when the input has a comma and at blanks otherwise.
C9_RangeSplitSelection ==
    (Returned("rangeSplit") /\ call.tokens # <<>>) =>
        ret.raised = "" /\ ret.value = Selected(call.tokens)

C9_Witness ==
    /\ Returned("rangeSplit")
    /\ call.rangeStr = <<"1", " ", "2", " ", "4", "-", "6", " ", "8">>
    /\ ret.value = <<1, 2, 4, 5, 6, 8>>

C9_WitnessComma ==
    /\ Returned("rangeSplit")
    /\ call.rangeStr = <<"1", ",", "3", ",", "5">>
    /\ ret.value = <<1, 3, 5>>

C9_WitnessDescending ==
    /\ Returned("rangeSplit")
    /\ call.rangeStr = <<"3", "-", "1", ",", "2">>
    /\ ret = Ret(<<2>>)

Width(total) == IF total < 10 THEN 1 ELSE IF total < 100 THEN 2 ELSE IF total < 1000 THEN 3 ELSE 4

Wanted(c) == IF endswith(c.filename, <<".", "m", "p", "4">>) THEN "Video Original" ELSE "Original"

\* the latest call reached urlretrieve
WriteAttempted == last.result # "none" /\ Wanted(last) \in last.sizes

\* the download of a call failed: no wanted size entry, or the fetch failed
DownloadFailure(c) == Wanted(c) \notin c.sizes \/ ~c.fetched

\* C1: setExif is additive: every key the file held before the call, of
\* whatever family, keeps its value.
C1_ExistingValuesKept ==
    last.result = "saved" =>
        \A key \in DOMAIN last.asset :
            key \in DOMAIN last.metadata /\ last.metadata[key] = last.asset[key]

\* C2: downloadNotInSet ends only after a page that is not full, so every
\* photo of the feed has been passed to downloadPhoto when the loop ends.
C2_EveryFeedPhotoPassed ==
    (pc = "done" /\ setsToDownload = <<0>>) => passed = feed

\* C3: a download failure of one photo of an album is caught in downloadPhoto:
\* nothing is stored or printed for it, no metadata is written, it is not tried
\* again and the loop stays at work with the next photo.
C3_DownloadFailureSkipsPhoto ==
    [][ (pc = "set" /\ i < CurrentSet.total /\ DownloadFailure(last')) =>
            /\ ~last'.stored /\ ~last'.printed /\ ~last'.wrote
            /\ last'.metadata = NoFile
            /\ anySaved' = anySaved
            /\ error' = "" /\ pc' = "set" /\ k' = k /\ i' = i + 1 ]_vars

C3_Witness ==
    /\ pc = "set" /\ i = 1 /\ CurrentSet.total = 2
    /\ last.result # "none" /\ DownloadFailure(last)
    /\ ~last.printed /\ error = ""

\* the metadata of a photo cannot be derived
MetadataFailure(photoInfo) ==
    getLicense(photoInfo).raised # "" \/ strptime(photoInfo.taken).raised # ""

\* C4: a failure to derive the metadata of one downloaded photo of an album
\* does not end the album loop.
C4_MetadataFailureKeepsLoop ==
    (last.stored /\ last.photoNum # NoNum /\ Wanted(last) = "Original"
        /\ MetadataFailure(last.photoInfo)) => pc # "aborted"

\* C5: the directory an asset is written into exists when it is written and
\* is the directory downloadPhoto created or found.
C5_DestinationExists ==
    WriteAttempted => (last.path \in dirs /\ last.setPath = last.path)

\* a selection that can be honoured in full
Honourable ==
    LET r == rangeSplit(selection)
    IN  r.raised = "" /\ \A n \in 1..Len(r.value) : r.value[n] \in 0..(Len(photosets) - 1)

\* the program was ended by the selection: by rangeSplit, or by the lookup
\* of a selected index
EndedBySelection ==
    /\ pc = "aborted"
    /\ \/ rangeSplit(selection).raised # ""
       \/ /\ k \in 1..Len(setsToDownload)
          /\ index(photosets, setsToDownload[k]).raised # ""

\* C6: a selection with a token that is no number, or with an index without
\* an album, ends the program before any asset is downloaded.
C6_NoDownloadOnBadSelection ==
    (~Honourable /\ EndedBySelection) => ~anySaved

====
